---- MODULE Spec2Model ----
(***************************************************************************)
(* Model of the MongoDB MCP server of src/src/index.ts: the CallTool       *)
(* request handler (connection, dispatch, parameter validation), the       *)
(* getSchema tool (sample fetch, the analyzeObject fold, the report), the  *)
(* find tool with convertToObjectIds, and the SIGINT/SIGTERM cleanup.      *)
(***************************************************************************)
EXTENDS Integers, Sequences, FiniteSets, TLC

\* ------------------------------------------------------------------ bounds
\* Longest sample the store hands back in the handler specification.
MaxDocs == 4
\* Clients the handler specification lets connect() create.
MaxClients == 2
\* Largest sample size of the percentage specification.
MaxPctSample == 203
\* Longest sample the store hands back in the concurrent specification.
MaxConcDocs == 2
\* Longest result the store hands back in the find specification.
MaxFindDocs == 2

\* ------------------------------------------------------- program constants
\* z.number().optional().default(100)
DefaultSampleSize == 100
\* find's limit: z.number().optional().default(10)
DefaultFindLimit == 10
\* fieldInfo[fieldPath].examples.length < 3
MaxExamples == 3

\* --------------------------------------------------------------- JS values
\* A value is [kind, atom, ent]: kind is what the value is at run time, atom
\* tells two primitives of a kind apart, ent are the own enumerable entries
\* (Object.entries order) of an object or an array, each [key, val].
\* A key or a path is a string, written as the sequence of its dot-free
\* segments and its dots: "a.b" is <<"a", ".", "b">> and "" is <<>>.  A
\* segment that ends in _id, Id, _ids or Ids is written with that ending as
\* a piece of its own: "userId" is <<"user", "Id">>.
Val(kind, atom, ent) == [kind |-> kind, atom |-> atom, ent |-> ent]
Entry(key, val) == [key |-> key, val |-> val]

Null == Val("null", "null", <<>>)
Str(s) == Val("string", s, <<>>)
Num(s) == Val("number", s, <<>>)
Bool(s) == Val("boolean", s, <<>>)
DateV(s) == Val("date", s, <<>>)
Oid(s) == Val("oid", s, <<>>)
Arr(elems) == Val("array", "", elems)
Obj(ents) == Val("plain", "", ents)

\* Array.isArray(value)
IsArray(v) == v.kind = "array"

\* value === null
IsNull(v) == v.kind = "null"

\* value instanceof Date
InstanceofDate(v) == v.kind = "date"

\* value instanceof ObjectId
InstanceofObjectId(v) == v.kind = "oid"

\* typeof value: null, arrays, dates and ObjectIds are all 'object'.
Typeof(v) ==
  CASE v.kind = "string" -> "string"
    [] v.kind = "number" -> "number"
    [] v.kind = "boolean" -> "boolean"
    [] OTHER -> "object"

\* The classification without its null test: typeof null is 'object'.
TypeTagNoNull(v) ==
  IF IsArray(v) THEN "array"
  ELSE IF InstanceofDate(v) THEN "date"
  ELSE IF InstanceofObjectId(v) THEN "ObjectId"
  ELSE Typeof(v)

\* const type = Array.isArray(value) ? 'array' : value === null ? 'null' : ...
TypeTag(v) ==
  IF IsArray(v) THEN "array"
  ELSE IF IsNull(v) THEN "null"
  ELSE IF InstanceofDate(v) THEN "date"
  ELSE IF InstanceofObjectId(v) THEN "ObjectId"
  ELSE Typeof(v)

\* `${prefix}.${key}` when prefix is truthy (not the empty string), else key.
JoinPath(prefix, key) ==
  IF prefix # <<>> THEN prefix \o <<".">> \o key ELSE key

\* Names every object literal inherits from Object.prototype: fieldInfo is
\* created as {}, so fieldInfo[name] is truthy for them before any record.
ObjectPrototypeNames ==
  { <<"constructor">>, <<"toString">>, <<"valueOf">>, <<"hasOwnProperty">>,
    <<"__proto__">> }

\* ------------------------------------------------ IEEE-754 double percentage
\* Math.round((info.count / samples.length) * 100) on doubles.  A positive
\* double is kept as an exact integer significand in five limbs
\* <<T, l1, l2, l3, l4>> (T the integer part, four 13-bit limbs of fraction:
\* 52 fraction bits) times a power of two.
Base == 8192

RECURSIVE Pow2(_)
Pow2(k) == IF k = 0 THEN 1 ELSE 2 * Pow2(k - 1)

\* Number of binary digits of a positive integer.
RECURSIVE BitLen(_)
BitLen(t) == IF t = 0 THEN 0 ELSE 1 + BitLen(t \div 2)

\* Least k >= 0 with c * 2^k >= n (the quotient's binary exponent is -k).
RECURSIVE ScaleUp(_, _)
ScaleUp(c, n) == IF c >= n THEN 0 ELSE 1 + ScaleUp(2 * c, n)

\* Greatest j >= 0 with c >= n * 2^j (the quotient's binary exponent is j).
RECURSIVE ScaleDown(_, _)
ScaleDown(c, n) == IF c < 2 * n THEN 0 ELSE 1 + ScaleDown(c, 2 * n)

\* Carries of the four fraction limbs into their left neighbours.
Carry(m) ==
  LET c4 == m[5] \div Base
      v3 == m[4] + c4
      c3 == v3 \div Base
      v2 == m[3] + c3
      c2 == v2 \div Base
      v1 == m[2] + c2
      c1 == v1 \div Base
  IN  << m[1] + c1, v1 % Base, v2 % Base, v3 % Base, m[5] % Base >>

\* num / den for 1 <= num / den < 2, rounded to 53 bits, ties to even.
DivLimbs(num, den) ==
  LET t  == num \div den
      r0 == num % den
      l1 == (r0 * Base) \div den
      r1 == (r0 * Base) % den
      l2 == (r1 * Base) \div den
      r2 == (r1 * Base) % den
      l3 == (r2 * Base) \div den
      r3 == (r2 * Base) % den
      l4 == (r3 * Base) \div den
      r4 == (r3 * Base) % den
      up == (2 * r4 > den) \/ (2 * r4 = den /\ l4 % 2 = 1)
  IN  Carry(<< t, l1, l2, l3, l4 + (IF up THEN 1 ELSE 0) >>)

\* m * 100, rounded back to 53 significant bits, ties to even.
Mul100(m) ==
  LET p    == Carry(<< m[1] * 100, m[2] * 100, m[3] * 100, m[4] * 100, m[5] * 100 >>)
      s    == BitLen(p[1]) - 1
      unit == Pow2(s)
      low  == p[5] % unit
      q    == p[5] \div unit
      up   == (2 * low > unit) \/ (2 * low = unit /\ q % 2 = 1)
  IN  IF s = 0 THEN p
      ELSE Carry(<< p[1], p[2], p[3], p[4], (q + (IF up THEN 1 ELSE 0)) * unit >>)

\* Math.round of the double m * 2^e (e = j - k): the nearest integer, a tie
\* going up.
RoundLimbs(m, k, j) ==
  IF k > 0
    THEN (m[1] + Pow2(k - 1)) \div Pow2(k)
    ELSE m[1] * Pow2(j) + ((m[2] \div Pow2(12 - j)) + 1) \div 2

\* round(100 * count / n) in exact arithmetic, a tie going up.
PercentageExact(count, n) == (200 * count + n) \div (2 * n)

\* The percentage truncated instead of rounded.
PercentageFloor(count, n) == (100 * count) \div n

\* percentage: Math.round((info.count / samples.length) * 100)
Percentage(count, n) ==
  LET k == ScaleUp(count, n)
      j == ScaleDown(count, n)
      x == DivLimbs(count * Pow2(k), n * Pow2(j))
  IN  RoundLimbs(Mul100(x), k, j)

\* decimal digits of a non-negative integer, as String(n) writes them
RECURSIVE Digits(_)
Digits(n) ==
  LET d == <<"0", "1", "2", "3", "4", "5", "6", "7", "8", "9">>[(n % 10) + 1]
  IN  IF n < 10 THEN <<d>> ELSE Digits(n \div 10) \o <<d>>

\* The frequency string with the default sampleSize as its denominator.
FrequencyOfDefault(count, n) ==
  Digits(count) \o <<"/">> \o Digits(DefaultSampleSize)

\* frequency: `${info.count}/${samples.length}`
Frequency(count, n) == Digits(count) \o <<"/">> \o Digits(n)

\* ------------------------------------------------------------ sampled data
\* Documents the store may hand back.  Dotted keys are legal field names.
DocNested ==
  Obj(<< Entry(<<"a">>, Obj(<< Entry(<<"b">>, Str("s1")) >>)),
         Entry(<<"a", ".", "b">>, Num("7")) >>)
DocTags ==
  Obj(<< Entry(<<"name">>, Str("Al")),
         Entry(<<"tags">>, Arr(<< Entry(<<"0">>, Obj(<< Entry(<<"x">>, Num("1")) >>)) >>)) >>)
DocMixed ==
  Obj(<< Entry(<<"name">>, Num("42")),
         Entry(<<"a">>, Null),
         Entry(<<"tags">>, Obj(<< Entry(<<"x">>, Str("s2")) >>)) >>)
DocIds ==
  Obj(<< Entry(<<"_id">>, Oid("o1")),
         Entry(<<"a">>, Obj(<< Entry(<<"b">>, DateV("d1")),
                               Entry(<<"ok">>, Bool("true")) >>)) >>)
DocCtor == Obj(<< Entry(<<"constructor">>, Str("c1")) >>)
DocEmpty == Obj(<< >>)
\* A record that is not mapping-shaped: the null value.
DocNull == Null

DocPool == { DocNested, DocTags, DocMixed, DocIds, DocCtor, DocEmpty, DocNull }

SampleSeqs == UNION { [1..n -> DocPool] : n \in 0..MaxDocs }

\* ------------------------------------------------------------------ requests
\* A tools/call request: the tool name and its arguments.  An argument is
\* [kind, n]: omitted, a number (n), or a value of another type.
Arg(kind, n) == [kind |-> kind, n |-> n]
Request(name, collection, sampleSize) ==
  [name |-> name, collection |-> collection, sampleSize |-> sampleSize]

SampleSizeInputs == -1..2

Requests ==
  { Request("getSchema", Arg("string", 0), Arg("omitted", 0)),
    Request("getSchema", Arg("string", 0), Arg("string", 0)),
    Request("getSchema", Arg("omitted", 0), Arg("omitted", 0)),
    Request("bogus", Arg("string", 0), Arg("omitted", 0)) }
  \cup { Request("getSchema", Arg("string", 0), Arg("number", n)) : n \in SampleSizeInputs }

NoRequest == Request("", Arg("omitted", 0), Arg("omitted", 0))

\* A find request: its filter argument is omitted, a record (val), or a
\* value of another type; limit, skip, projection and sort are omitted.
FilterArg(kind, val) == [kind |-> kind, val |-> val]
FindRequest(collection, filter) ==
  [name |-> "find", collection |-> collection,
   sampleSize |-> Arg("omitted", 0), filter |-> filter]

\* ------------------------------------------------------------------- state
\* Handler invocations that may be in flight; every per-invocation variable
\* is a function on them.
Calls == {1, 2}

VARIABLES
  uriSet,       \* process.env.MONGODB_URI is set
  mongoClient,  \* this.mongoClient: 0 is null, else the client's number
  db,           \* this.db: 0 is null, else the client it came from
  created,      \* MongoClient objects constructed so far
  opened,       \* the clients whose connect() has resolved
  closed,       \* the clients close() was called on
  signal,       \* SIGINT/SIGTERM handling: none, closing, exited
  connecting,   \* per invocation: the client whose connect() it awaits, or 0
  pc,           \* where each handler invocation stands
  req,          \* its request
  fetch,        \* the find it issued to the store: [issued, limit, filter]
  samples,      \* const samples
  docIdx,       \* samples.forEach: the document being folded, or the next
  stack,        \* analyzeObject's activations: [prefix, ents still to visit]
  fieldInfo,    \* const fieldInfo
  result        \* what the handler returned or threw

vars == << uriSet, mongoClient, db, created, opened, closed, signal,
           connecting, pc, req, fetch, samples, docIdx, stack, fieldInfo,
           result >>

connVars == << uriSet, mongoClient, db, created, opened, closed, signal >>
foldVars == << samples, docIdx, stack, fieldInfo >>

NoFetch == [issued |-> FALSE, limit |-> 0, filter |-> Obj(<<>>)]
NoResult == [kind |-> "none"]
Thrown(code) == [kind |-> "error", code |-> code]
Returned(json) == [kind |-> "content", json |-> json]

Init ==
  /\ uriSet \in BOOLEAN
  /\ mongoClient = 0
  /\ db = 0
  /\ created = 0
  /\ opened = {}
  /\ closed = {}
  /\ signal = "none"
  /\ connecting = [c \in Calls |-> 0]
  /\ pc = [c \in Calls |-> "idle"]
  /\ req = [c \in Calls |-> NoRequest]
  /\ fetch = [c \in Calls |-> NoFetch]
  /\ samples = [c \in Calls |-> <<>>]
  /\ docIdx = [c \in Calls |-> 0]
  /\ stack = [c \in Calls |-> <<>>]
  /\ fieldInfo = [c \in Calls |-> <<>>]
  /\ result = [c \in Calls |-> NoResult]

\* JavaScript runs a handler from one await to the next without interleaving:
\* while a call is inside the synchronous fold no other call takes a step.
\* Nothing runs after process.exit.
MayRun(c) ==
  /\ signal # "exited"
  /\ \A d \in Calls \ {c} : pc[d] # "folding"

\* --------------------------------------------------------------- connection
\* The handler is invoked for a tools/call request: `await ensureConnected()`
\* comes next.
Receive(c, r) ==
  /\ pc[c] = "idle"
  /\ MayRun(c)
  /\ pc' = [pc EXCEPT ![c] = "connect"]
  /\ req' = [req EXCEPT ![c] = r]
  /\ UNCHANGED << connVars, connecting, fetch, foldVars, result >>

\* ensureConnected() up to its first await: with this.db set it returns it;
\* otherwise connect() throws without a URI, or constructs a MongoClient,
\* stores it in this.mongoClient and awaits its connect().
EnsureConnected(c) ==
  /\ pc[c] = "connect"
  /\ MayRun(c)
  /\ IF db # 0 \/ (mongoClient # 0 /\ db # 0)
       THEN /\ pc' = [pc EXCEPT ![c] = "dispatch"]
            /\ UNCHANGED << connVars, connecting, result >>
       ELSE IF ~uriSet
         THEN /\ pc' = [pc EXCEPT ![c] = "done"]
              /\ result' = [result EXCEPT ![c] = Thrown("InternalError")]
              /\ UNCHANGED << connVars, connecting >>
         ELSE /\ created < MaxClients
              /\ created' = created + 1
              /\ mongoClient' = created + 1
              /\ connecting' = [connecting EXCEPT ![c] = created + 1]
              /\ pc' = [pc EXCEPT ![c] = "awaitConnect"]
              /\ UNCHANGED << uriSet, db, opened, closed, signal, result >>
  /\ UNCHANGED << req, fetch, foldVars >>

\* await this.mongoClient.connect() resolves for the client this call
\* constructed; then this.db = this.mongoClient.db() reads this.mongoClient
\* again, which another call may have replaced meanwhile.
ConnectOk(c) ==
  /\ pc[c] = "awaitConnect"
  /\ MayRun(c)
  /\ opened' = opened \cup {connecting[c]}
  /\ db' = mongoClient
  /\ connecting' = [connecting EXCEPT ![c] = 0]
  /\ pc' = [pc EXCEPT ![c] = "dispatch"]
  /\ UNCHANGED << uriSet, mongoClient, created, closed, signal, req, fetch,
                  foldVars, result >>

\* await this.mongoClient.connect() rejects: connect() throws InternalError,
\* which the handler's catch rethrows.  this.mongoClient stays assigned.
ConnectFail(c) ==
  /\ pc[c] = "awaitConnect"
  /\ MayRun(c)
  /\ pc' = [pc EXCEPT ![c] = "done"]
  /\ result' = [result EXCEPT ![c] = Thrown("InternalError")]
  /\ connecting' = [connecting EXCEPT ![c] = 0]
  /\ UNCHANGED << connVars, req, fetch, foldVars >>

\* ---------------------------------------------------- identifier coercion
\* !obj: null, "", 0 and false are falsy.
Falsy(v) ==
  \/ v.kind = "null"
  \/ v.kind = "string" /\ v.atom = ""
  \/ v.kind = "number" /\ v.atom = "0"
  \/ v.kind = "boolean" /\ v.atom = "false"

\* A string of 24 hexadecimal digits, and obj.length of the strings in use.
HexString == "507f1f77bcf86cd799439011"
StringLength(v) ==
  CASE v.atom = HexString -> 24
    [] v.atom = "Al" -> 2
    [] v.atom = "" -> 0

\* ObjectId.isValid(v) of a string: it is 24 hexadecimal digits.
ObjectIdIsValid(v) == v.kind = "string" /\ v.atom = HexString

\* new ObjectId(v)
NewObjectId(v) == Oid(v.atom)

\* key === '_id' || key.endsWith('_id') || key.endsWith('Id') ||
\* key.endsWith('_ids') || key.endsWith('Ids')
IdKey(key) ==
  /\ key # <<>>
  /\ key[Len(key)] \in {"_id", "Id", "_ids", "Ids"}

\* '$in' in value, and value.$in
HasIn(v) == \E i \in 1..Len(v.ent) : v.ent[i].key = <<"$in">>
InOf(v) == v.ent[CHOOSE i \in 1..Len(v.ent) : v.ent[i].key = <<"$in">>].val

\* typeof v === 'string' && ObjectId.isValid(v) ? new ObjectId(v) : v
ToObjectIdIfValid(v) ==
  IF Typeof(v) = "string" /\ ObjectIdIsValid(v) THEN NewObjectId(v) ELSE v

\* value.map((v) => ...) with the function above: the elements keep their
\* indices.
MapToObjectIdIfValid(v) ==
  Arr([i \in 1..Len(v.ent) |->
         Entry(v.ent[i].key, ToObjectIdIfValid(v.ent[i].val))])

\* convertToObjectIds(obj)
RECURSIVE convertToObjectIds(_)
convertToObjectIds(obj) ==
  IF Falsy(obj) THEN obj
  ELSE IF Typeof(obj) = "string" /\ ObjectIdIsValid(obj) /\ StringLength(obj) = 24
    THEN NewObjectId(obj)
  ELSE IF IsArray(obj)
    THEN Arr([i \in 1..Len(obj.ent) |->
                Entry(obj.ent[i].key, convertToObjectIds(obj.ent[i].val))])
  ELSE IF Typeof(obj) = "object" /\ ~IsNull(obj)
    THEN Obj([i \in 1..Len(obj.ent) |->
           LET key == obj.ent[i].key
               value == obj.ent[i].val
           IN  Entry(key,
                 IF IdKey(key)
                   THEN IF Typeof(value) = "string" /\ ObjectIdIsValid(value)
                          THEN NewObjectId(value)
                        ELSE IF IsArray(value)
                          THEN MapToObjectIdIfValid(value)
                        ELSE IF Typeof(value) = "object" /\ ~IsNull(value) /\ HasIn(value)
                          THEN Obj(<< Entry(<<"$in">>,
                                 IF IsArray(InOf(value))
                                   THEN MapToObjectIdIfValid(InOf(value))
                                   ELSE InOf(value)) >>)
                        ELSE convertToObjectIds(value)
                   ELSE convertToObjectIds(value))])
  ELSE obj

\* ----------------------------------------------------------------- dispatch
\* GetSchemaToolSchema.parse(args) succeeds: collection is a string and
\* sampleSize is absent or a number (any number: no .int(), no .positive()).
ParseOk(r) ==
  /\ r.collection.kind = "string"
  /\ r.sampleSize.kind \in {"omitted", "number"}

\* params.sampleSize after .optional().default(100)
ParamsSampleSize(r) ==
  IF r.sampleSize.kind = "omitted" THEN DefaultSampleSize ELSE r.sampleSize.n

\* FindToolSchema.parse(args) succeeds: collection is a string and filter is
\* absent or a record.
FindParseOk(r) ==
  /\ r.collection.kind = "string"
  /\ r.filter.kind \in {"omitted", "record"}

\* params.filter after .optional().default({})
ParamsFilter(r) == IF r.filter.kind = "omitted" THEN Obj(<<>>) ELSE r.filter.val

\* switch (name): case 'find' parses the arguments, converts the filter and
\* issues collection.find(filter).skip(0).limit(params.limit).toArray();
\* case 'getSchema' parses the arguments and issues
\* collection.find({}).limit(params.sampleSize).toArray(); a ZodError becomes
\* InvalidParams in the catch; any other name throws MethodNotFound.
Dispatch(c) ==
  /\ pc[c] = "dispatch"
  /\ MayRun(c)
  /\ IF req[c].name = "find"
       THEN IF FindParseOk(req[c])
         THEN /\ fetch' = [fetch EXCEPT ![c] =
                             [issued |-> TRUE, limit |-> DefaultFindLimit,
                              filter |-> convertToObjectIds(ParamsFilter(req[c]))]]
              /\ pc' = [pc EXCEPT ![c] = "awaitFind"]
              /\ UNCHANGED result
         ELSE /\ pc' = [pc EXCEPT ![c] = "done"]
              /\ result' = [result EXCEPT ![c] = Thrown("InvalidParams")]
              /\ UNCHANGED fetch
       ELSE IF req[c].name = "getSchema"
       THEN IF ParseOk(req[c])
         THEN /\ fetch' = [fetch EXCEPT ![c] =
                             [issued |-> TRUE, limit |-> ParamsSampleSize(req[c]),
                              filter |-> Obj(<<>>)]]
              /\ pc' = [pc EXCEPT ![c] = "awaitFetch"]
              /\ UNCHANGED result
         ELSE /\ pc' = [pc EXCEPT ![c] = "done"]
              /\ result' = [result EXCEPT ![c] = Thrown("InvalidParams")]
              /\ UNCHANGED fetch
       ELSE /\ pc' = [pc EXCEPT ![c] = "done"]
            /\ result' = [result EXCEPT ![c] = Thrown("MethodNotFound")]
            /\ UNCHANGED fetch
  /\ UNCHANGED << connVars, connecting, req, foldVars >>

\* ------------------------------------------------------------------- fetch
\* What find({}).limit(n).toArray() may resolve to: any run of documents no
\* longer than the limit; the store reads limit 0 as no limit and a negative
\* limit as its absolute value.
FetchResultsFrom(seqs, limit) ==
  LET cap == IF limit = 0 THEN MaxDocs
             ELSE IF limit < 0 THEN -limit ELSE limit
  IN  { s \in seqs : Len(s) <= cap }
FetchResults(limit) == FetchResultsFrom(SampleSeqs, limit)

\* JSON of the samples.length === 0 branch.
EmptyReport ==
  [message |-> "No documents found in collection", fields |-> <<>>]

\* The accumulator of the other invocation, as a field of the server would
\* be.
SharedFieldInfo(c) == fieldInfo[CHOOSE d \in Calls : d # c]

\* const fieldInfo: Record<string, any> = {}: a local of the invocation.
FreshFieldInfo(c) == <<>>

\* The fetch resolves with one of results.  No documents: the no-documents
\* result is returned.  Otherwise fieldInfo = {} and samples.forEach starts.
FetchReturnFrom(c, results) ==
  /\ pc[c] = "awaitFetch"
  /\ MayRun(c)
  /\ \E s \in results :
       /\ samples' = [samples EXCEPT ![c] = s]
       /\ IF Len(s) = 0
            THEN /\ pc' = [pc EXCEPT ![c] = "done"]
                 /\ result' = [result EXCEPT ![c] = Returned(EmptyReport)]
                 /\ UNCHANGED << docIdx, stack, fieldInfo >>
            ELSE /\ pc' = [pc EXCEPT ![c] = "folding"]
                 /\ docIdx' = [docIdx EXCEPT ![c] = 1]
                 /\ stack' = [stack EXCEPT ![c] = <<>>]
                 /\ fieldInfo' = [fieldInfo EXCEPT ![c] = FreshFieldInfo(c)]
                 /\ UNCHANGED result
  /\ UNCHANGED << connVars, connecting, req, fetch >>

FetchReturn(c) == FetchReturnFrom(c, FetchResults(fetch[c].limit))

\* find's toArray() resolves with one of results, which the handler returns
\* as JSON.
FindReturnFrom(c, results) ==
  /\ pc[c] = "awaitFind"
  /\ MayRun(c)
  /\ \E s \in results :
       result' = [result EXCEPT ![c] = Returned(s)]
  /\ pc' = [pc EXCEPT ![c] = "done"]
  /\ UNCHANGED << connVars, connecting, req, fetch, foldVars >>

\* -------------------------------------------------------------------- fold
\* fieldInfo[fieldPath] = { types: new Set(), examples: [], count: 0 }
NewRecord == [types |-> <<>>, examples |-> <<>>, count |-> 0]

\* An array push in place of Set.add: a tag seen twice is kept twice.
SetAddAlways(types, tag) == Append(types, tag)

\* types.add(type): a Set keeps insertion order and holds a value once.
SetAdd(types, tag) ==
  IF \E i \in 1..Len(types) : types[i] = tag THEN types ELSE Append(types, tag)

\* The capture without its value !== null test.
CaptureExampleWithNull(examples, v) ==
  IF Len(examples) < MaxExamples THEN Append(examples, v) ELSE examples

\* if (examples.length < 3 && value !== null) examples.push(value)
CaptureExample(examples, v) ==
  IF Len(examples) < MaxExamples /\ ~IsNull(v) THEN Append(examples, v) ELSE examples

\* count++, types.add(type), the example capture
Observe(rec, v) ==
  [ types    |-> SetAdd(rec.types, TypeTag(v)),
    examples |-> CaptureExample(rec.examples, v),
    count    |-> rec.count + 1 ]

\* The recursion guard on typeof alone: arrays, dates and ObjectIds pass it.
ShouldRecurseTypeof(v) == Typeof(v) = "object" /\ ~IsNull(v)

\* if (type === 'object' && value !== null) analyzeObject(value, fieldPath)
ShouldRecurse(v) == TypeTag(v) = "object" /\ ~IsNull(v)

\* Object.entries(obj) throws a TypeError on null.
EntriesThrows(v) == IsNull(v)

\* Object.entries(obj)
ObjectEntries(v) == v.ent

\* An activation whose for-of loop has no entry left returns.
DropDone(frames) == SelectSeq(frames, LAMBDA f : f.ents # <<>>)

\* samples.forEach calls analyzeObject(doc): Object.entries(doc) throws on a
\* null document (the catch rethrows it), else the for-of loop starts.
EnterDoc(c) ==
  /\ pc[c] = "folding"
  /\ stack[c] = <<>>
  /\ docIdx[c] <= Len(samples[c])
  /\ LET doc == samples[c][docIdx[c]]
         frames == DropDone(<< [prefix |-> <<>>, ents |-> ObjectEntries(doc)] >>)
     IN  IF EntriesThrows(doc)
           THEN /\ pc' = [pc EXCEPT ![c] = "done"]
                /\ result' = [result EXCEPT ![c] = Thrown("TypeError")]
                /\ UNCHANGED << docIdx, stack >>
           ELSE /\ stack' = [stack EXCEPT ![c] = frames]
                /\ docIdx' = [docIdx EXCEPT ![c] =
                                IF frames = <<>> THEN docIdx[c] + 1 ELSE docIdx[c]]
                /\ UNCHANGED << pc, result >>
  /\ UNCHANGED << connVars, connecting, req, fetch, samples, fieldInfo >>

\* One iteration of analyzeObject's for-of loop.  fieldInfo[fieldPath] of an
\* inherited name is truthy, so no record is created for it and
\* fieldInfo[fieldPath].types.add throws a TypeError.
AnalyzeEntry(c) ==
  /\ pc[c] = "folding"
  /\ stack[c] # <<>>
  /\ LET top    == Head(stack[c])
         e      == Head(top.ents)
         path   == JoinPath(top.prefix, e.key)
         fi     == fieldInfo[c]
         rest   == << [top EXCEPT !.ents = Tail(top.ents)] >> \o Tail(stack[c])
         rec    == IF path \in DOMAIN fi THEN fi[path] ELSE NewRecord
         child  == IF ShouldRecurse(e.val)
                     THEN << [prefix |-> path, ents |-> ObjectEntries(e.val)] >>
                     ELSE << >>
         frames == DropDone(child \o rest)
     IN  IF path \notin DOMAIN fi /\ path \in ObjectPrototypeNames
           THEN /\ pc' = [pc EXCEPT ![c] = "done"]
                /\ result' = [result EXCEPT ![c] = Thrown("TypeError")]
                /\ UNCHANGED << docIdx, stack, fieldInfo >>
           ELSE /\ fieldInfo' = [fieldInfo EXCEPT ![c] =
                                   [p \in DOMAIN fi \cup {path} |->
                                      IF p = path THEN Observe(rec, e.val) ELSE fi[p]]]
                /\ stack' = [stack EXCEPT ![c] = frames]
                /\ docIdx' = [docIdx EXCEPT ![c] =
                                IF frames = <<>> THEN docIdx[c] + 1 ELSE docIdx[c]]
                /\ UNCHANGED << pc, result >>
  /\ UNCHANGED << connVars, connecting, req, fetch, samples >>

\* ------------------------------------------------------------------ report
\* Object.entries(fieldInfo).reduce(...): the public view of every record.
Schema(fi, n) ==
  [p \in DOMAIN fi |->
     [ types      |-> fi[p].types,
       examples   |-> fi[p].examples,
       frequency  |-> Frequency(fi[p].count, n),
       percentage |-> Percentage(fi[p].count, n) ]]

\* The object handed to JSON.stringify.
Report(collection, fi, n) ==
  [ collection |-> collection,
    sampleSize |-> n,
    fields     |-> Schema(fi, n),
    summary    |-> [ totalFields    |-> Cardinality(DOMAIN Schema(fi, n)),
                     totalDocuments |-> n ] ]

\* samples.forEach is over: the report is built and returned.
BuildReport(c) ==
  /\ pc[c] = "folding"
  /\ stack[c] = <<>>
  /\ docIdx[c] > Len(samples[c])
  /\ pc' = [pc EXCEPT ![c] = "done"]
  /\ result' = [result EXCEPT ![c] =
                  Returned(Report(req[c].collection, fieldInfo[c], Len(samples[c])))]
  /\ UNCHANGED << connVars, connecting, req, fetch, foldVars >>

\* The handler's promise settles; the invocation's locals are gone.
Respond(c) ==
  /\ pc[c] = "done"
  /\ MayRun(c)
  /\ pc' = [pc EXCEPT ![c] = "idle"]
  /\ req' = [req EXCEPT ![c] = NoRequest]
  /\ fetch' = [fetch EXCEPT ![c] = NoFetch]
  /\ samples' = [samples EXCEPT ![c] = <<>>]
  /\ docIdx' = [docIdx EXCEPT ![c] = 0]
  /\ stack' = [stack EXCEPT ![c] = <<>>]
  /\ fieldInfo' = [fieldInfo EXCEPT ![c] = <<>>]
  /\ result' = [result EXCEPT ![c] = NoResult]
  /\ UNCHANGED << connVars, connecting >>

\* ----------------------------------------------------------- specification
\* One request at a time.
Next ==
  \/ \E r \in Requests : Receive(1, r)
  \/ EnsureConnected(1)
  \/ ConnectOk(1)
  \/ ConnectFail(1)
  \/ Dispatch(1)
  \/ FetchReturn(1)
  \/ EnterDoc(1)
  \/ AnalyzeEntry(1)
  \/ BuildReport(1)
  \/ Respond(1)

Spec == Init /\ [][Next]_vars

\* ------------------------------------------------ percentage specification
\* The report construction alone, over samples too long to enumerate by
\* content: k documents that hold one field f, then n - k that hold none,
\* already folded (f was seen k times), for every 1 <= k <= n <= MaxPctSample.
DocField == Obj(<< Entry(<<"f">>, Str("v")) >>)

PctInit ==
  /\ uriSet = TRUE
  /\ mongoClient = 1
  /\ db = 1
  /\ created = 1
  /\ opened = {1}
  /\ closed = {}
  /\ signal = "none"
  /\ connecting = [c \in Calls |-> 0]
  /\ pc = [c \in Calls |-> IF c = 1 THEN "folding" ELSE "idle"]
  /\ req = [c \in Calls |->
              IF c = 1
                THEN Request("getSchema", Arg("string", 0), Arg("number", MaxPctSample))
                ELSE NoRequest]
  /\ fetch = [c \in Calls |->
                IF c = 1
                  THEN [issued |-> TRUE, limit |-> MaxPctSample, filter |-> Obj(<<>>)]
                  ELSE NoFetch]
  /\ stack = [c \in Calls |-> <<>>]
  /\ result = [c \in Calls |-> NoResult]
  /\ \E n \in 1..MaxPctSample : \E k \in 1..n :
       /\ samples = [c \in Calls |->
                       IF c = 1
                         THEN [i \in 1..n |-> IF i <= k THEN DocField ELSE DocEmpty]
                         ELSE <<>>]
       /\ docIdx = [c \in Calls |-> IF c = 1 THEN n + 1 ELSE 0]
       /\ fieldInfo = [c \in Calls |->
                         IF c = 1
                           THEN [p \in {<<"f">>} |->
                                   [ types    |-> <<"string">>,
                                     examples |-> [i \in 1..(IF k < MaxExamples THEN k ELSE MaxExamples)
                                                     |-> Str("v")],
                                     count    |-> k ]]
                           ELSE <<>>]

PctNext == BuildReport(1)

SpecPct == PctInit /\ [][PctNext]_vars

\* ------------------------------------------------ concurrent specification
\* Two handler invocations in flight, interleaved at their awaits, and the
\* SIGINT/SIGTERM handler; the store holds documents of ConcPool.
ConcPool == { DocTags, DocMixed }
ConcSampleSeqs == UNION { [1..n -> ConcPool] : n \in 0..MaxConcDocs }
ConcRequests ==
  { Request("getSchema", Arg("string", 0), Arg("omitted", 0)),
    Request("getSchema", Arg("string", 0), Arg("number", 1)),
    Request("bogus", Arg("string", 0), Arg("omitted", 0)) }

\* process.on('SIGINT' | 'SIGTERM'): cleanup() calls close() on
\* this.mongoClient, if there is one, and awaits it.
Cleanup ==
  /\ signal = "none"
  /\ \A c \in Calls : pc[c] # "folding"
  /\ IF mongoClient # 0
       THEN /\ closed' = closed \cup {mongoClient}
            /\ signal' = "closing"
       ELSE /\ signal' = "exited"
            /\ UNCHANGED closed
  /\ UNCHANGED << uriSet, mongoClient, db, created, opened, connecting, pc,
                  req, fetch, foldVars, result >>

\* close() has resolved: process.exit(0).
Exit ==
  /\ signal = "closing"
  /\ \A c \in Calls : pc[c] # "folding"
  /\ signal' = "exited"
  /\ UNCHANGED << uriSet, mongoClient, db, created, opened, closed,
                  connecting, pc, req, fetch, foldVars, result >>

ConcNext ==
  \/ \E c \in Calls :
       \/ \E r \in ConcRequests : Receive(c, r)
       \/ EnsureConnected(c)
       \/ ConnectOk(c)
       \/ ConnectFail(c)
       \/ Dispatch(c)
       \/ FetchReturnFrom(c, FetchResultsFrom(ConcSampleSeqs, fetch[c].limit))
       \/ EnterDoc(c)
       \/ AnalyzeEntry(c)
       \/ BuildReport(c)
       \/ Respond(c)
  \/ Cleanup
  \/ Exit

SpecConc == Init /\ [][ConcNext]_vars

\* ------------------------------------------------------ find specification
\* One request at a time, find or getSchema, on a collection whose documents
\* hold 24-digit hexadecimal strings.
DocHexIds ==
  Obj(<< Entry(<<"_id">>, Str(HexString)),
         Entry(<<"token">>, Str(HexString)) >>)
FindPool == { DocHexIds, DocTags }
FindSampleSeqs == UNION { [1..n -> FindPool] : n \in 0..MaxFindDocs }

\* Filters {key: value}: value a string, a number, an array, a {$in: ...}
\* or a nested {key: leaf}.
FilterKeys == { <<"_id">>, <<"user", "Id">>, <<"owner", "_ids">>, <<"name">> }
FilterLeaves == { Str(HexString), Str("Al"), Num("7"), Null }
FilterArrays ==
  { Arr(<< Entry(<<"0">>, a), Entry(<<"1">>, b) >>) :
      a \in FilterLeaves, b \in {Str(HexString), Str("Al")} }
FilterValues ==
  FilterLeaves \cup FilterArrays
    \cup { Obj(<< Entry(<<"$in">>, v) >>) : v \in FilterArrays \cup {Str(HexString)} }
    \cup { Obj(<< Entry(k, v) >>) : k \in FilterKeys, v \in FilterLeaves }
Filters == { Obj(<< Entry(k, v) >>) : k \in FilterKeys, v \in FilterValues }

FindRequests ==
  { FindRequest(Arg("string", 0), FilterArg("record", f)) : f \in Filters }
  \cup { FindRequest(Arg("string", 0), FilterArg("omitted", Null)),
         FindRequest(Arg("string", 0), FilterArg("string", Str("Al"))),
         Request("getSchema", Arg("string", 0), Arg("omitted", 0)) }

FindNext ==
  \/ \E r \in FindRequests : Receive(1, r)
  \/ EnsureConnected(1)
  \/ ConnectOk(1)
  \/ ConnectFail(1)
  \/ Dispatch(1)
  \/ FindReturnFrom(1, FetchResultsFrom(FindSampleSeqs, fetch[1].limit))
  \/ FetchReturnFrom(1, FetchResultsFrom(FindSampleSeqs, fetch[1].limit))
  \/ EnterDoc(1)
  \/ AnalyzeEntry(1)
  \/ BuildReport(1)
  \/ Respond(1)

SpecFind == Init /\ [][FindNext]_vars

\* =============================================================== properties
\* What the sampled documents hold, computed from the documents alone: the
\* visits [path, val] of a depth-first walk that descends through nested
\* plain objects only, a nested key's path being parent "." key.
RECURSIVE Walk(_, _, _)
Walk(ents, prefix, top) ==
  IF ents = <<>> THEN <<>>
  ELSE LET e == Head(ents)
           p == IF top THEN e.key ELSE prefix \o <<".">> \o e.key
       IN  << [path |-> p, val |-> e.val] >>
           \o (IF e.val.kind = "plain" THEN Walk(e.val.ent, p, FALSE) ELSE <<>>)
           \o Walk(Tail(ents), prefix, top)

DocVisits(doc) == IF doc.kind = "plain" THEN Walk(doc.ent, <<>>, TRUE) ELSE <<>>

RECURSIVE SeqVisits(_, _)
SeqVisits(docs, k) ==
  IF k = 0 THEN <<>> ELSE SeqVisits(docs, k - 1) \o DocVisits(docs[k])

\* Visits still ahead of the activations on the stack.
RECURSIVE Pending(_)
Pending(frames) ==
  IF frames = <<>> THEN 0
  ELSE Len(Walk(Head(frames).ents, Head(frames).prefix, Head(frames).prefix = <<>>))
       + Pending(Tail(frames))

Take(s, k) == SubSeq(s, 1, IF k < 0 THEN 0 ELSE IF k > Len(s) THEN Len(s) ELSE k)

\* The visits call c's fold has made so far, in order.
Visited(c) ==
  IF stack[c] = <<>>
    THEN SeqVisits(samples[c], docIdx[c] - 1)
    ELSE SeqVisits(samples[c], docIdx[c] - 1)
         \o Take(DocVisits(samples[c][docIdx[c]]),
                 Len(DocVisits(samples[c][docIdx[c]])) - Pending(stack[c]))

At(vis, p) == SelectSeq(vis, LAMBDA v : v.path = p)
NonNull(vis) == SelectSeq(vis, LAMBDA v : v.val.kind # "null")
Vals(vis) == [i \in 1..Len(vis) |-> vis[i].val]
Paths(vis) == { vis[i].path : i \in 1..Len(vis) }

\* The tag the precedence array, null, date, ObjectId, primitive kind gives.
ExpectedTag(v) ==
  CASE v.kind = "array" -> "array"
    [] v.kind = "null" -> "null"
    [] v.kind = "date" -> "date"
    [] v.kind = "oid" -> "ObjectId"
    [] v.kind = "plain" -> "object"
    [] OTHER -> v.kind

\* The distinct elements of a sequence, in order of first occurrence.
RECURSIVE Distinct(_)
Distinct(s) ==
  IF s = <<>> THEN <<>>
  ELSE LET d == Distinct(SubSeq(s, 1, Len(s) - 1))
           x == s[Len(s)]
       IN  IF \E i \in 1..Len(d) : d[i] = x THEN d ELSE Append(d, x)

Tags(vis) == [i \in 1..Len(vis) |-> ExpectedTag(vis[i].val)]

Folding(c) == pc[c] = "folding"
\* The call returned the report of a non-empty sample.
Reported(c) ==
  pc[c] = "done" /\ result[c].kind = "content" /\ samples[c] # <<>>
\* The call returned or threw after its fetch resolved with documents.
Ended(c) == pc[c] = "done" /\ samples[c] # <<>>
DocsEntered(c) == IF stack[c] = <<>> THEN docIdx[c] - 1 ELSE docIdx[c]
\* The call's sampleSize is what the specification allows: omitted, or a
\* positive integer.
PositiveSampleSize(c) ==
  req[c].sampleSize.kind = "omitted"
    \/ (req[c].sampleSize.kind = "number" /\ req[c].sampleSize.n >= 1)

\* C1 as claimed: during and after the fold every field's presence count is
\* at most the number of sampled documents folded so far, so a path is
\* counted at most once per document.
C1_CountAtMostOncePerDocument ==
  \A c \in Calls :
    (PositiveSampleSize(c) /\ (Folding(c) \/ Reported(c))) =>
      \A p \in DOMAIN fieldInfo[c] : fieldInfo[c][p].count <= DocsEntered(c)

\* C2 as claimed: every reported percentage equals round(100 * count / n) and
\* lies in 1..100, for every count in 1..n.
C2_PercentageExactInOneToHundred ==
  \A c \in Calls :
    Reported(c) =>
      \A p \in DOMAIN result[c].json.fields :
        LET cnt == fieldInfo[c][p].count
            n   == Len(samples[c])
            pct == result[c].json.fields[p].percentage
        IN  cnt \in 1..n => pct = PercentageExact(cnt, n) /\ pct \in 1..100

\* 100 * cnt / n lies exactly halfway between two integers.
Tie(cnt, n) == (200 * cnt) % (2 * n) = n

\* C2 amended: for every count in 1..n the reported percentage is an integer
\* in 0..100; it is round(100 * count / n), or one less at an exact .5 tie
\* (the double product falls below the tie); and it is 0 exactly when the
\* field is in less than 0.5% of the documents.
C2_PercentageRoundedDouble ==
  \A c \in Calls :
    Reported(c) =>
      \A p \in DOMAIN result[c].json.fields :
        LET cnt == fieldInfo[c][p].count
            n   == Len(samples[c])
            pct == result[c].json.fields[p].percentage
        IN  cnt \in 1..n =>
              /\ pct \in 0..100
              /\ \/ pct = PercentageExact(cnt, n)
                 \/ Tie(cnt, n) /\ pct = PercentageExact(cnt, n) - 1
              /\ pct = 0 <=> 200 * cnt < n

\* C2 witness: a report over more than 200 documents with a field seen once,
\* whose percentage is 0.
C2_Witness ==
  /\ Reported(1)
  /\ Len(samples[1]) > 200
  /\ \E p \in DOMAIN result[1].json.fields :
       fieldInfo[1][p].count = 1 /\ result[1].json.fields[p].percentage = 0

\* C3 as claimed: for every non-empty sample of mapping-shaped documents the
\* call returns a report whose field paths are exactly the paths reachable
\* through nested objects, each seen at least once.
C3_ReportCoversReachablePaths ==
  \A c \in Calls :
    ( PositiveSampleSize(c) /\ Ended(c)
      /\ \A i \in 1..Len(samples[c]) : samples[c][i].kind = "plain" ) =>
      /\ result[c].kind = "content"
      /\ DOMAIN result[c].json.fields = Paths(SeqVisits(samples[c], Len(samples[c])))
      /\ \A p \in DOMAIN fieldInfo[c] : fieldInfo[c][p].count >= 1

\* C4: during the fold and in the report, every field visited with an array
\* value has a record with the tag 'array', and every recorded path below it
\* is the path of another visit: the array's elements add no path.
C4_ArrayOpacity ==
  \A c \in Calls :
    (Folding(c) \/ Reported(c)) =>
      LET vis == Visited(c)
          fi  == fieldInfo[c]
      IN  \A i \in 1..Len(vis) :
            vis[i].val.kind = "array" =>
              /\ vis[i].path \in DOMAIN fi
              /\ \E t \in 1..Len(fi[vis[i].path].types) :
                   fi[vis[i].path].types[t] = "array"
              /\ \A p \in DOMAIN fi :
                   ( Len(p) > Len(vis[i].path) + 1
                     /\ SubSeq(p, 1, Len(vis[i].path) + 1) = vis[i].path \o <<".">> )
                   => p \in Paths(vis)
              /\ Reported(c) =>
                   ( vis[i].path \in DOMAIN result[c].json.fields
                     /\ \E t \in 1..Len(result[c].json.fields[vis[i].path].types) :
                          result[c].json.fields[vis[i].path].types[t] = "array" )

\* C4 witness: a report over a sample holding tags as an array of objects in
\* one document and tags as an object in another.
C4_Witness ==
  /\ Reported(1)
  /\ \E i \in 1..Len(samples[1]) : samples[1][i] = DocTags
  /\ \E i \in 1..Len(samples[1]) : samples[1][i] = DocMixed
  /\ <<"tags", ".", "x">> \in DOMAIN result[1].json.fields

\* C5: during the fold and in the report, each field's examples are the
\* first up-to-three non-null values visited at its path, in order; its
\* count is the number of visits, null ones included; and it has the tag
\* 'null' exactly when a null was visited there.
C5_ExamplesFirstThreeNonNull ==
  \A c \in Calls :
    (Folding(c) \/ Reported(c)) =>
      LET vis == Visited(c)
          fi  == fieldInfo[c]
      IN  \A p \in DOMAIN fi :
            LET at == At(vis, p)
            IN  /\ Len(fi[p].examples) <= 3
                /\ \A i \in 1..Len(fi[p].examples) : fi[p].examples[i] # Null
                /\ fi[p].examples = Take(Vals(NonNull(at)), 3)
                /\ fi[p].count = Len(at)
                /\ (\E t \in 1..Len(fi[p].types) : fi[p].types[t] = "null")
                     <=> (\E i \in 1..Len(at) : at[i].val = Null)
                /\ Reported(c) => result[c].json.fields[p].examples = fi[p].examples

\* C5 witness: a report where one path was visited with more than three
\* non-null values and another path with a null.
C5_Witness ==
  /\ Reported(1)
  /\ \E p \in DOMAIN fieldInfo[1] :
       Len(NonNull(At(Visited(1), p))) > 3 /\ Len(fieldInfo[1][p].examples) = 3
  /\ \E p \in DOMAIN fieldInfo[1] :
       /\ \E i \in 1..Len(Visited(1)) :
            Visited(1)[i].path = p /\ Visited(1)[i].val = Null
       /\ fieldInfo[1][p].count >= 2

\* C6 as claimed: when the fetch resolves with no document the call returns
\* a result with sampleSize = 0, an empty fields mapping and a no-documents
\* message.
C6_EmptyReportHasSampleSizeZero ==
  \A c \in Calls :
    (PositiveSampleSize(c) /\ pc[c] = "done" /\ fetch[c].issued /\ samples[c] = <<>>) =>
      /\ result[c].kind = "content"
      /\ "message" \in DOMAIN result[c].json
      /\ "fields" \in DOMAIN result[c].json
      /\ result[c].json.fields = <<>>
      /\ "sampleSize" \in DOMAIN result[c].json
      /\ result[c].json.sampleSize = 0

\* C7 as claimed: a sample holding a record that is not mapping-shaped still
\* ends in a report, whose fields are those of the other documents.
C7_MalformedDocumentSkipped ==
  \A c \in Calls :
    ( PositiveSampleSize(c) /\ Ended(c)
      /\ \E i \in 1..Len(samples[c]) : samples[c][i].kind # "plain" ) =>
      /\ result[c].kind = "content"
      /\ DOMAIN result[c].json.fields = Paths(SeqVisits(samples[c], Len(samples[c])))

\* C8 as claimed: the limit of every fetch issued to the store is a positive
\* integer (a non-positive sampleSize is rejected before the fetch).
C8_FetchLimitPositive ==
  \A c \in Calls : fetch[c].issued => fetch[c].limit >= 1

\* C9: in every report each field's types list is the distinct tags of the
\* values visited at its path, each once, in order of first visit: a
\* function of the sample sequence alone.
C9_TypesFirstSeenOrder ==
  \A c \in Calls :
    Reported(c) =>
      \A p \in DOMAIN result[c].json.fields :
        result[c].json.fields[p].types
          = Distinct(Tags(At(SeqVisits(samples[c], Len(samples[c])), p)))

\* C9 witness: the report of a sample where name is a string, then a number.
C9_Witness ==
  /\ Reported(1)
  /\ <<"name">> \in DOMAIN result[1].json.fields
  /\ result[1].json.fields[<<"name">>].types = <<"string", "number">>
  /\ Len(At(SeqVisits(samples[1], Len(samples[1])), <<"name">>)) = 3

\* C10: every completed iteration of the fold adds to the visited path's
\* types the tag the precedence array, null, date, ObjectId, primitive kind
\* gives, and starts a nested activation exactly when that tag is 'object'
\* (and the object has an entry to visit).
C10_ClassifyThenRecurseOnObject ==
  [][ \A c \in Calls :
        (Folding(c) /\ stack[c] # <<>> /\ pc'[c] = "folding") =>
          LET top  == Head(stack[c])
              e    == Head(top.ents)
              path == JoinPath(top.prefix, e.key)
              rest == DropDone(<< [top EXCEPT !.ents = Tail(top.ents)] >> \o Tail(stack[c]))
              tag  == ExpectedTag(e.val)
          IN  /\ path \in DOMAIN fieldInfo'[c]
              /\ \E t \in 1..Len(fieldInfo'[c][path].types) :
                   fieldInfo'[c][path].types[t] = tag
              /\ (stack'[c] # rest) <=> (tag = "object" /\ e.val.ent # <<>>)
              /\ (stack'[c] # rest) =>
                   stack'[c] = << [prefix |-> path, ents |-> e.val.ent] >> \o rest
    ]_vars

\* C10 witness: a report whose sample held a null, a date, an ObjectId, an
\* array with an element and a nested object, each under its own tag.
C10_Witness ==
  /\ Reported(1)
  /\ LET f == result[1].json.fields
     IN  /\ {<<"a">>, <<"a", ".", "b">>, <<"_id">>, <<"tags">>} \subseteq DOMAIN f
         /\ f[<<"a">>].types = <<"null", "object">>
         /\ f[<<"a", ".", "b">>].types = <<"date">>
         /\ f[<<"_id">>].types = <<"ObjectId">>
         /\ f[<<"tags">>].types = <<"object", "array">>

\* The number a string of decimal digits denotes.
DigitValue(d) ==
  CHOOSE k \in 0..9 :
    <<"0", "1", "2", "3", "4", "5", "6", "7", "8", "9">>[k + 1] = d
RECURSIVE ParseInt(_)
ParseInt(s) ==
  IF s = <<>> THEN 0
  ELSE 10 * ParseInt(SubSeq(s, 1, Len(s) - 1)) + DigitValue(s[Len(s)])
\* The position of the "/" of a frequency string, and its two sides.
SlashAt(s) == CHOOSE i \in 1..Len(s) : s[i] = "/"
Numerator(s) == ParseInt(SubSeq(s, 1, SlashAt(s) - 1))
Denominator(s) == ParseInt(SubSeq(s, SlashAt(s) + 1, Len(s)))

\* C11: in every report of a non-empty sample, sampleSize,
\* summary.totalDocuments and the denominator of every frequency string equal
\* the number of documents fetched, whatever sampleSize was requested; the
\* numerator of a field's frequency string is the number of times the fold
\* visited that field's path; summary.totalFields is the number of entries of
\* fields.
C11_ReportCountsFetchedDocuments ==
  \A c \in Calls :
    Reported(c) =>
      LET json == result[c].json
          n == Len(samples[c])
      IN  /\ json.sampleSize = n
          /\ json.summary.totalDocuments = n
          /\ json.summary.totalFields = Cardinality(DOMAIN json.fields)
          /\ \A p \in DOMAIN json.fields :
               /\ Denominator(json.fields[p].frequency) = n
               /\ Numerator(json.fields[p].frequency) = Len(At(Visited(c), p))

\* A report of two documents fetched under the default sampleSize, with a
\* field present in one of them only.
C11_Witness ==
  /\ Reported(1)
  /\ req[1].sampleSize.kind = "omitted"
  /\ fetch[1].limit = DefaultSampleSize
  /\ Len(samples[1]) = 2
  /\ result[1].json.sampleSize = 2
  /\ \E p \in DOMAIN result[1].json.fields :
       result[1].json.fields[p].frequency = <<"1", "/", "2">>

\* What a fold that ran alone holds after the visits vis: for every path its
\* tags in order of first occurrence, its first MaxExamples non-null values
\* and the number of its visits.
SoloFieldInfo(vis) ==
  [p \in Paths(vis) |->
     [ types    |-> Distinct(Tags(At(vis, p))),
       examples |-> Take(Vals(NonNull(At(vis, p))), MaxExamples),
       count    |-> Len(At(vis, p)) ]]

\* C12: under every interleaving of two calls at their awaits, the records a
\* call's fold holds are those of its own visits of its own samples, and the
\* report it returns is the report of its own samples folded alone; so no
\* record of the other call is in it.
C12_ReportOfOwnSamplesOnly ==
  \A c \in Calls :
    /\ Folding(c) => fieldInfo[c] = SoloFieldInfo(Visited(c))
    /\ Ended(c) =>
         result[c] =
           Returned(Report(req[c].collection,
                           SoloFieldInfo(SeqVisits(samples[c], Len(samples[c]))),
                           Len(samples[c])))

\* Both calls hold their reports at once, of different samples: call 2
\* fetched and folded after call 1 had issued its fetch, and the reports
\* differ.
C12_Witness ==
  /\ Reported(1)
  /\ Reported(2)
  /\ samples[1] = << DocTags >>
  /\ samples[2] = << DocMixed, DocMixed >>
  /\ result[1].json.fields[<<"name">>].types = << "string" >>
  /\ result[2].json.fields[<<"name">>].types = << "number" >>
  /\ <<"a">> \in DOMAIN result[2].json.fields
  /\ <<"a">> \notin DOMAIN result[1].json.fields

\* C13 as claimed: over every interleaving of calls, at most one client is
\* connected and not closed; once this.db is set it is the handle of the one
\* connected client; and when the process has exited after cleanup, every
\* client that was opened has been closed.
C13_SingleClientMemoized ==
  /\ Cardinality(opened \ closed) <= 1
  /\ db # 0 => opened = {db}
  /\ signal = "exited" => opened \subseteq closed

\* The call in flight names no tool of the switch / has arguments its tool's
\* schema rejects.
UnknownTool(c) == pc[c] # "idle" /\ req[c].name \notin {"getSchema", "find"}
InvalidArguments(c) ==
  \/ req[c].name = "getSchema" /\ ~ParseOk(req[c])
  \/ req[c].name = "find" /\ ~FindParseOk(req[c])

\* C14 as claimed: whatever the connection state, a call naming an unknown
\* tool ends with MethodNotFound and a call with invalid arguments ends with
\* InvalidParams, and such a call never awaits a connect and never issues a
\* store operation.
C14_RejectedWithoutConnecting ==
  \A c \in Calls :
    (UnknownTool(c) \/ InvalidArguments(c)) =>
      /\ pc[c] # "awaitConnect"
      /\ ~fetch[c].issued
      /\ pc[c] = "done" =>
           result[c] = Thrown(IF UnknownTool(c) THEN "MethodNotFound"
                                                ELSE "InvalidParams")

\* No ObjectId occurs in v; below a key that is _id or ends in _id, Id, _ids
\* or Ids, one may occur as the key's value, as an element of its array
\* value, or as an element of the $in array of its value.
RECURSIVE NoObjectIdIn(_), ObjectIdsUnderIdKeysOnly(_)
NoObjectIdIn(v) ==
  /\ v.kind # "oid"
  /\ \A i \in 1..Len(v.ent) : NoObjectIdIn(v.ent[i].val)
IdOrNone(v) == v.kind = "oid" \/ NoObjectIdIn(v)
IdsOrNone(v) ==
  IF v.kind = "array" THEN \A i \in 1..Len(v.ent) : IdOrNone(v.ent[i].val)
                      ELSE NoObjectIdIn(v)
ObjectIdsUnderIdKeysOnly(v) ==
  /\ v.kind # "oid"
  /\ \A i \in 1..Len(v.ent) :
       LET key == v.ent[i].key
           val == v.ent[i].val
       IN  IF v.kind = "plain" /\ IdKey(key)
             THEN \/ val.kind = "oid"
                  \/ val.kind = "array" /\ IdsOrNone(val)
                  \/ /\ val.kind = "plain"
                     /\ \A j \in 1..Len(val.ent) :
                          IF val.ent[j].key = <<"$in">>
                            THEN IdsOrNone(val.ent[j].val)
                            ELSE ObjectIdsUnderIdKeysOnly(Obj(<< val.ent[j] >>))
                  \/ NoObjectIdIn(val)
             ELSE ObjectIdsUnderIdKeysOnly(val)

\* C15 as claimed: the filter a find call hands to the store holds native
\* identifiers only where the request held a string as the value, an array
\* element or a $in element of a key that is _id or ends in _id, Id, _ids or
\* Ids, so a string under any other key is handed on unchanged; and a
\* getSchema call fetches with the empty filter and reports its samples as
\* fetched, a sampled string staying a string.
C15_CoercionBySuffixOnly ==
  \A c \in Calls :
    /\ (fetch[c].issued /\ req[c].name = "find") =>
         ObjectIdsUnderIdKeysOnly(fetch[c].filter)
    /\ (fetch[c].issued /\ req[c].name = "getSchema") =>
         /\ fetch[c].filter = Obj(<<>>)
         /\ Reported(c) =>
              \A p \in DOMAIN result[c].json.fields :
                /\ result[c].json.fields[p].types
                     = Distinct(Tags(At(Visited(c), p)))
                /\ result[c].json.fields[p].examples
                     = Take(Vals(NonNull(At(Visited(c), p))), MaxExamples)

====
